---- MODULE Spec2Model ----
(***************************************************************************)
(* The deployment diff state tracker of the httpstate backend             *)
(* (deploymentDiffState: newDeploymentDiffState, SequenceNumber, CanDiff,  *)
(* ShouldDiff, Diff, Saved, computeHash, computeEdits).                    *)
(*                                                                         *)
(* A json.RawMessage is a record [isNil, bytes]: Go tells a nil slice from *)
(* an empty non-nil one, and CanDiff tests the field against nil.  Bytes   *)
(* are numbers 0..255; a text is a sequence of bytes.                      *)
(*                                                                         *)
(* With it: the update cycle of the tracker's collaborator against the     *)
(* backend (SpecProtocol), and, from the integration tests' utilities,     *)
(* synchronouslyDo with its file lock (SpecLock) and testLogWriter         *)
(* (SpecLog).  Every specification has all the variables; the ones it does *)
(* not use keep their initial values.                                      *)
(***************************************************************************)
EXTENDS Integers, Sequences, FiniteSets, TLC

\* ------------------------------------------------------------------ bounds
\* Longest snapshot, in bytes, handed to Saved and Diff.
MaxLen == 2
\* Largest threshold handed to newDeploymentDiffState.
MaxThreshold == 2
\* Number of Saved calls after which the model stops calling Saved.
MaxSaved == 2
\* Number of hash goroutines that may outlive their Diff call at one time.
MaxOrphans == 1
\* Longest document, in bytes, of the specification of the delta's round trip.
MaxDocLen == 3
\* Write calls on the testLogWriter
MaxWrites == 3
\* Flush calls on the testLogWriter
MaxFlush == 2

\* ------------------------------------------------------------- data values
\* The bytes snapshots are made of: '\n' (10) and 'a' (97).
Alphabet == {10, 97}

\* The bytes of the round trip's documents: those, and 0xFF (255), a byte that
\* occurs in no valid UTF-8 text.
DocAlphabet == {10, 97, 255}

TextsOver(bytes, n) == UNION {[1..k -> bytes] : k \in 0..n}

Texts(n) == TextsOver(Alphabet, n)

NilMsg == [isNil |-> TRUE, bytes |-> <<>>]

Raw(b) == [isNil |-> FALSE, bytes |-> b]

\* Every json.RawMessage the caller may pass: nil, empty non-nil, and texts.
Messages == {NilMsg} \cup {Raw(b) : b \in Texts(MaxLen)}

\* The documents of the round trip: nil, empty non-nil, and texts.
Documents == {NilMsg} \cup {Raw(b) : b \in TextsOver(DocAlphabet, MaxDocLen)}

\* len(m) of a json.RawMessage; len(nil) = 0.
LenMsg(m) == Len(m.bytes)

\* string(m) of a json.RawMessage; string(nil) = "".
StringOf(m) == m.bytes

\* The zero value deploymentDiff{}.
EmptyDiff == [sequenceNumber |-> 0, checkpointHash |-> <<>>,
              deploymentDelta |-> [isNil |-> TRUE, edits |-> <<>>]]

NoError == "nil"
PreconditionError == "Diff() cannot be called before Saved()"
EncodingError == "Cannot marshal the edits"

VARIABLES
    lastSavedDeployment,  \* dds.lastSavedDeployment
    sequenceNumber,       \* dds.sequenceNumber
    minimalDiffSize,      \* dds.minimalDiffSize
    pc,                   \* where the owner is: "idle", or inside Diff at "edits" / "wait"
    before,               \* Diff's local before
    after,                \* Diff's local after
    checkpointHash,       \* Diff's local checkpointHash, written by the goroutine
    checkpointHashReady,  \* the WaitGroup's counter
    hpc,                  \* the hash goroutine of the call in flight: "none", "hash", "done", "ended"
    delta,                \* Diff's local delta
    orphans,              \* hash goroutines still running after their Diff call returned
    ret,                  \* the last call that returned: its name, argument and results
    ctorMinimalDiffSize,  \* the argument newDeploymentDiffState was called with
    nSaved,               \* how many Saved calls have returned
    savedArg,             \* the argument of the most recent Saved call
    pre,                  \* the tracker's fields when the last call was entered
    seen,                 \* the pairs <<lastSavedDeployment, sequenceNumber>> the tracker
                          \* has held since the Diff call in flight was entered
    snapshot,             \* the collaborator's serialized bytes of the cycle in progress
    phase,                \* the collaborator's position in its update cycle
    kept,                 \* the DiffResult of a transmission that failed in this cycle
    response,             \* the backend's answer to the last update: "none", "accepted", "rejected"
    stored,               \* the backend's stored document, as bytes
    expected,             \* the version the backend expects next
    mutex,                \* who holds the file lock: "free", "other" or a caller of synchronouslyDo
    ctxErr,               \* per call: ctx.Err() is non-nil (the timeout expired or cancel ran)
    lockWait,             \* per call: the channel lockWait is closed
    mpc,                  \* per call: where synchronouslyDo is: "off", "select", "returned"
    gpc,                  \* per call: where its goroutine is
    unlockDeferred,       \* per call: the goroutine has deferred mutex.Unlock()
    fnCalls,              \* per call: how many times fn was invoked
    fatal,                \* per call: nonfatalT.fatal
    messages,             \* per call: nonfatalT.messages
    early,                \* per call: the other holder let go before the call's timeout expired
    buff,                 \* testLogWriter.buff
    logs,                 \* the messages handed to testLogWriter.logf
    written,              \* all the bytes handed to Write so far
    wret,                 \* the last call on the testLogWriter and what it returned
    nWrites,              \* how many Write calls have returned
    nFlush                \* how many Flush calls have returned

\* The tracker, the Diff call in flight and the record of the calls.
diffState == <<lastSavedDeployment, sequenceNumber, minimalDiffSize, pc, before, after,
               checkpointHash, checkpointHashReady, hpc, delta, orphans, ret,
               ctorMinimalDiffSize, nSaved, savedArg, pre, seen>>

\* The collaborator's update cycle and the backend it talks to.
protocol == <<snapshot, phase, kept, response, stored, expected>>

\* The calls of synchronouslyDo on one lockfile.
locking == <<mutex, ctxErr, lockWait, mpc, gpc, unlockDeferred, fnCalls, fatal,
             messages, early>>

\* One testLogWriter.
logging == <<buff, logs, written, wret, nWrites, nFlush>>

\* What no method of the tracker reads or writes.
env == <<protocol, locking, logging>>

vars == <<diffState, env>>

tracker == <<lastSavedDeployment, sequenceNumber, minimalDiffSize>>

locals == <<before, after, checkpointHash, checkpointHashReady, hpc, delta>>

ghosts == <<ctorMinimalDiffSize, nSaved, savedArg>>

\* ------------------------------------------------------------ computeHash
\* sha256.Sum256 and hex.EncodeToString: the digest's hex string, a sequence
\* that is never empty and that distinct byte sequences never share (SHA-256
\* has no known collisions): the length of the input, then its bytes.  The
\* empty string "" is <<>>.
computeHash(deployment) == <<Len(deployment.bytes)>> \o deployment.bytes

\* ----------------------------------------------------------- computeEdits
\* strings.SplitAfter(text, "\n"): every piece keeps its newline, and the text
\* after the last newline is a piece of its own, empty or not.
RECURSIVE SplitAfter(_, _, _)
SplitAfter(text, i, cur) ==
    IF i > Len(text) THEN <<cur>>
    ELSE IF text[i] = 10 THEN <<Append(cur, 10)>> \o SplitAfter(text, i + 1, <<>>)
    ELSE SplitAfter(text, i + 1, Append(cur, text[i]))

\* myers.splitLines: the pieces, without the empty piece after a final newline.
splitLines(text) ==
    LET lines == SplitAfter(text, 1, <<>>)
    IN  IF lines[Len(lines)] = <<>> THEN SubSeq(lines, 1, Len(lines) - 1) ELSE lines

\* Length of a longest common subsequence of a[x+1..] and b[y+1..].
RECURSIVE LCS(_, _, _, _)
LCS(a, b, x, y) ==
    IF x >= Len(a) \/ y >= Len(b) THEN 0
    ELSE IF a[x + 1] = b[y + 1] THEN 1 + LCS(a, b, x + 1, y + 1)
    ELSE LET d == LCS(a, b, x + 1, y)
             r == LCS(a, b, x, y + 1)
         IN  IF d >= r THEN d ELSE r

\* One operation per line that is deleted from a or inserted from b along a
\* shortest edit path from (x, y): equal lines are walked over, a deletion comes
\* before an insertion at the same place.
RECURSIVE Walk(_, _, _, _)
Walk(a, b, x, y) ==
    IF x >= Len(a) /\ y >= Len(b) THEN <<>>
    ELSE IF x < Len(a) /\ y < Len(b) /\ a[x + 1] = b[y + 1]
        THEN Walk(a, b, x + 1, y + 1)
    ELSE IF x < Len(a) /\ (y >= Len(b) \/ LCS(a, b, x + 1, y) >= LCS(a, b, x, y + 1))
        THEN <<[Kind |-> "Delete", I1 |-> x, I2 |-> x + 1, J1 |-> y, Content |-> <<>>]>>
             \o Walk(a, b, x + 1, y)
    ELSE <<[Kind |-> "Insert", I1 |-> x, I2 |-> x, J1 |-> y, Content |-> <<b[y + 1]>>]>>
         \o Walk(a, b, x, y + 1)

\* Runs of deleted lines and runs of inserted lines become one operation each.
RECURSIVE Runs(_)
Runs(ops) ==
    IF Len(ops) <= 1 THEN ops
    ELSE LET rest == Runs(Tail(ops))
             o == Head(ops)
             n == Head(rest)
         IN  IF o.Kind = "Delete" /\ n.Kind = "Delete" /\ o.I2 = n.I1
                 THEN <<[o EXCEPT !.I2 = n.I2]>> \o Tail(rest)
             ELSE IF o.Kind = "Insert" /\ n.Kind = "Insert" /\ o.I1 = n.I1
                 THEN <<[o EXCEPT !.Content = o.Content \o n.Content]>> \o Tail(rest)
             ELSE <<o>> \o rest

\* myers.operations: the deletions a[I1:I2] and the insertions of b's lines
\* Content at a[I1:I1] that turn the lines a into the lines b.
operations(a, b) == Runs(Walk(a, b, 0, 0))

RECURSIVE Join(_)
Join(lines) == IF lines = <<>> THEN <<>> ELSE Head(lines) \o Join(Tail(lines))

\* span.New(uri, span.NewPoint(l1, 1, 0), span.NewPoint(l2, 1, 0))
NewSpan(l1, l2) == [start |-> [line |-> l1, column |-> 1],
                    end |-> [line |-> l2, column |-> 1]]

\* The gotextdiff.TextEdit of one operation, in a sequence; an insertion of
\* empty content gives none.
EditsOf(op) ==
    LET s == NewSpan(op.I1 + 1, op.I2 + 1)
    IN  IF op.Kind = "Delete" THEN <<[Span |-> s, NewText |-> <<>>]>>
        ELSE IF Join(op.Content) # <<>>
            THEN <<[Span |-> s, NewText |-> Join(op.Content)]>>
        ELSE <<>>

RECURSIVE EditsOfAll(_)
EditsOfAll(ops) ==
    IF ops = <<>> THEN <<>> ELSE EditsOf(Head(ops)) \o EditsOfAll(Tail(ops))

\* myers.ComputeEdits(uri, before, after)
ComputeEdits(beforeText, afterText) ==
    EditsOfAll(operations(splitLines(beforeText), splitLines(afterText)))

\* Bytes that occur in no UTF-8 encoded text.
NeverUTF8 == {192, 193} \cup (245..255)

\* encoding/json writes a Go string as a JSON string: newline, quote and
\* backslash are escaped, and a byte that is not part of valid UTF-8 is written
\* as the six characters of the escape for U+FFFD.  (The quotes around the string are left out.)
RECURSIVE EncodeString(_)
EncodeString(s) ==
    IF s = <<>> THEN <<>>
    ELSE LET c == Head(s)
             e == IF c = 10 THEN <<92, 110>>
                  ELSE IF c = 34 THEN <<92, 34>>
                  ELSE IF c = 92 THEN <<92, 92>>
                  ELSE IF c \in NeverUTF8 THEN <<92, 117, 102, 102, 102, 100>>
                  ELSE <<c>>
         IN  e \o EncodeString(Tail(s))

\* json.Marshal of one TextEdit: the span's points, and NewText as a JSON string.
MarshalEdit(e) == [Span |-> e.Span, NewText |-> EncodeString(e.NewText)]

\* json.Marshal(edits): a JSON array, never nil, with one object per edit.
Marshal(edits) ==
    [isNil |-> FALSE, edits |-> [i \in 1..Len(edits) |-> MarshalEdit(edits[i])]]

\* computeEdits with the two texts handed to myers.ComputeEdits in the wrong order.
computeEditsSwapped(beforeText, afterText) == Marshal(ComputeEdits(afterText, beforeText))

\* computeEdits(ctx, before, after) when json.Marshal returns no error.
computeEdits(beforeText, afterText) == Marshal(ComputeEdits(beforeText, afterText))

\* ------------------------------------------------------- the receiving side
\* encoding/json reads a JSON string back: the escapes become the bytes they
\* stand for, the escape for U+FFFD its three UTF-8 bytes.
RECURSIVE DecodeString(_)
DecodeString(e) ==
    IF e = <<>> THEN <<>>
    ELSE IF Head(e) = 92 /\ Len(e) >= 2
        THEN IF e[2] = 110 THEN <<10>> \o DecodeString(SubSeq(e, 3, Len(e)))
             ELSE IF e[2] = 117 /\ Len(e) >= 6
                 THEN <<239, 191, 189>> \o DecodeString(SubSeq(e, 7, Len(e)))
             ELSE <<e[2]>> \o DecodeString(SubSeq(e, 3, Len(e)))
    ELSE <<Head(e)>> \o DecodeString(Tail(e))

\* json.Unmarshal of a delta into []gotextdiff.TextEdit.
Unmarshal(d) ==
    [i \in 1..Len(d.edits) |->
        [Span |-> d.edits[i].Span, NewText |-> DecodeString(d.edits[i].NewText)]]

\* Replaying edits on the lines of a text, from edit k on, with the lines before
\* line `next` already copied or deleted: the lines up to the edit's span are
\* copied, NewText is written, and the lines of the span are skipped.
RECURSIVE ApplyFrom(_, _, _, _)
ApplyFrom(lines, edits, k, next) ==
    IF k > Len(edits) THEN Join(SubSeq(lines, next, Len(lines)))
    ELSE LET e == edits[k]
         IN  Join(SubSeq(lines, next, e.Span.start.line - 1)) \o e.NewText
             \o ApplyFrom(lines, edits, k + 1, e.Span.end.line)

\* gotextdiff.ApplyEdits(before, edits)
ApplyEdits(beforeText, edits) == ApplyFrom(splitLines(beforeText), edits, 1, 1)

\* What the receiver of a delta update rebuilds from its stored document.
Replay(beforeText, d) == ApplyEdits(beforeText, Unmarshal(d))

\* ------------------------------------------------------------- the tracker
\* What a call returned: its name and argument, the bool, int or deploymentDiff
\* it returned, and its error.  Three more fields record the circumstances:
\* prevOp and prevSame, set by Saved only, are the call that returned just
\* before it and whether that was a Diff of this same argument; hash is Diff's local checkpointHash at the return, and joined
\* tells whether Diff's hash goroutine had ended by then; before is Diff's
\* local before and seen the pairs the tracker held during the call.
Returned(op, arg, bool, int, diff, err) ==
    [op |-> op, arg |-> arg, bool |-> bool, int |-> int, diff |-> diff, err |-> err,
     prevOp |-> IF op = "Saved" THEN ret.op ELSE "",
     prevSame |-> op = "Saved" /\ ret.op = "Diff" /\ ret.arg = arg,
     hash |-> IF op = "Diff" THEN checkpointHash ELSE <<>>,
     joined |-> IF op = "Diff" THEN hpc \in {"none", "ended"} ELSE TRUE,
     before |-> IF op = "Diff" THEN before ELSE NilMsg,
     seen |-> IF op = "Diff" THEN seen ELSE {}]

\* No call has returned since the owner entered the call in flight.
NoReturn ==
    [op |-> "", arg |-> NilMsg, bool |-> FALSE, int |-> 0, diff |-> EmptyDiff,
     err |-> NoError, prevOp |-> "", prevSame |-> FALSE, hash |-> <<>>, joined |-> TRUE,
     before |-> NilMsg, seen |-> {}]

NilDelta == [isNil |-> TRUE, edits |-> <<>>]

\* newDeploymentDiffState(minimalDiffSize)
newDeploymentDiffState(size) ==
    /\ lastSavedDeployment = NilMsg
    /\ sequenceNumber = 1
    /\ minimalDiffSize = size

\* No Diff call is in flight and none has returned.
Quiet ==
    /\ pc = "idle"
    /\ before = NilMsg
    /\ after = NilMsg
    /\ checkpointHash = <<>>
    /\ checkpointHashReady = 0
    /\ hpc = "none"
    /\ delta = NilDelta
    /\ orphans = 0
    /\ ret = NoReturn
    /\ seen = {}

\* No DiffResult is kept from a failed transmission, and the Diff call of this
\* cycle is not a repetition.
NoKept == [set |-> FALSE, again |-> FALSE, diff |-> EmptyDiff]

\* The collaborator is about to serialize its first snapshot; the backend has
\* stored nothing and expects version 1.
NoUpdateYet ==
    /\ snapshot = NilMsg
    /\ phase = "serialize"
    /\ kept = NoKept
    /\ response = "none"
    /\ stored = <<>>
    /\ expected = 1

\* The callers of synchronouslyDo on one lockfile.
Callers == {"t1", "t2"}

\* synchronouslyDo has not been called; the lock is held by holder.
NoCallYet(holder) ==
    /\ mutex = holder
    /\ ctxErr = [c \in Callers |-> FALSE]
    /\ lockWait = [c \in Callers |-> FALSE]
    /\ mpc = [c \in Callers |-> "off"]
    /\ gpc = [c \in Callers |-> "none"]
    /\ unlockDeferred = [c \in Callers |-> FALSE]
    /\ fnCalls = [c \in Callers |-> 0]
    /\ fatal = [c \in Callers |-> FALSE]
    /\ messages = [c \in Callers |-> <<>>]
    /\ early = [c \in Callers |-> holder # "other"]

\* What no call on the testLogWriter has returned yet.
NoWriteYet == [op |-> "", input |-> <<>>, n |-> 0, err |-> NoError]

\* testLogWriter{logf: ...}: the zero bytes.Buffer, and nothing logged.
NewWriter ==
    /\ buff = <<>>
    /\ logs = <<>>
    /\ written = <<>>
    /\ wret = NoWriteYet
    /\ nWrites = 0
    /\ nFlush = 0

\* A tracker built with the threshold size, on which nothing was called.
NewTracker(size) ==
    /\ newDeploymentDiffState(size)
    /\ ctorMinimalDiffSize = size
    /\ pre = <<NilMsg, 1, size>>
    /\ Quiet
    /\ nSaved = 0
    /\ savedArg = NilMsg

Init ==
    /\ \E size \in 0..MaxThreshold : NewTracker(size)
    /\ NoUpdateYet
    /\ NoCallYet("free")
    /\ NewWriter

\* dds.SequenceNumber()
SequenceNumber == sequenceNumber

\* dds.CanDiff()
CanDiff == ~lastSavedDeployment.isNil

\* ShouldDiff with <= for < in the test of the candidate's size.
ShouldDiffOffByOne(new) ==
    IF ~CanDiff THEN FALSE
    ELSE IF LenMsg(lastSavedDeployment) < minimalDiffSize THEN FALSE
    ELSE IF LenMsg(new) <= minimalDiffSize THEN FALSE
    ELSE TRUE

\* dds.ShouldDiff(new)
ShouldDiff(new) ==
    IF ~CanDiff THEN FALSE
    ELSE IF LenMsg(lastSavedDeployment) < minimalDiffSize THEN FALSE
    ELSE IF LenMsg(new) < minimalDiffSize THEN FALSE
    ELSE TRUE

\* SequenceNumber returning the counter and advancing it.
CallSequenceNumberAdvancing ==
    /\ pc = "idle"
    /\ ret' = Returned("SequenceNumber", NilMsg, FALSE, SequenceNumber, EmptyDiff, NoError)
    /\ pre' = tracker
    /\ sequenceNumber' = sequenceNumber + 1
    /\ UNCHANGED <<env, seen, lastSavedDeployment, minimalDiffSize, pc, locals, orphans, ghosts>>

\* The owner calls SequenceNumber.
CallSequenceNumber ==
    /\ pc = "idle"
    /\ ret' = Returned("SequenceNumber", NilMsg, FALSE, SequenceNumber, EmptyDiff, NoError)
    /\ pre' = tracker
    /\ UNCHANGED <<env, seen, tracker, pc, locals, orphans, ghosts>>

\* The owner calls CanDiff.
CallCanDiff ==
    /\ pc = "idle"
    /\ ret' = Returned("CanDiff", NilMsg, CanDiff, 0, EmptyDiff, NoError)
    /\ pre' = tracker
    /\ UNCHANGED <<env, seen, tracker, pc, locals, orphans, ghosts>>

\* The owner calls ShouldDiff(new).
CallShouldDiff(new) ==
    /\ pc = "idle"
    /\ ret' = Returned("ShouldDiff", new, ShouldDiff(new), 0, EmptyDiff, NoError)
    /\ pre' = tracker
    /\ UNCHANGED <<env, seen, tracker, pc, locals, orphans, ghosts>>

\* Saved accepting, after a Diff, only the candidate of that Diff.
SavedValidated(deployment) ==
    /\ pc = "idle"
    /\ nSaved < MaxSaved
    /\ ret.op = "Diff" => ret.arg = deployment
    /\ lastSavedDeployment' = deployment
    /\ sequenceNumber' = sequenceNumber + 1
    /\ ret' = Returned("Saved", deployment, FALSE, 0, EmptyDiff, NoError)
    /\ pre' = tracker
    /\ nSaved' = nSaved + 1
    /\ savedArg' = deployment
    /\ UNCHANGED <<env, seen, minimalDiffSize, pc, locals, orphans, ctorMinimalDiffSize>>

\* Saved as it would be without the increment of line 118.
SavedWithoutIncrement(deployment) ==
    /\ pc = "idle"
    /\ nSaved < MaxSaved
    /\ lastSavedDeployment' = deployment
    /\ sequenceNumber' = sequenceNumber
    /\ ret' = Returned("Saved", deployment, FALSE, 0, EmptyDiff, NoError)
    /\ pre' = tracker
    /\ nSaved' = nSaved + 1
    /\ savedArg' = deployment
    /\ UNCHANGED <<env, seen, minimalDiffSize, pc, locals, orphans, ctorMinimalDiffSize>>

\* dds.Saved(ctx, deployment)
Saved(deployment) ==
    /\ pc = "idle"
    /\ nSaved < MaxSaved
    /\ lastSavedDeployment' = deployment
    /\ sequenceNumber' = sequenceNumber + 1
    /\ ret' = Returned("Saved", deployment, FALSE, 0, EmptyDiff, NoError)
    /\ pre' = tracker
    /\ nSaved' = nSaved + 1
    /\ savedArg' = deployment
    /\ UNCHANGED <<env, seen, minimalDiffSize, pc, locals, orphans, ctorMinimalDiffSize>>

\* The frame of a Diff call that has returned.
FrameGone ==
    /\ before' = NilMsg
    /\ after' = NilMsg
    /\ checkpointHash' = <<>>
    /\ checkpointHashReady' = 0
    /\ hpc' = "none"
    /\ delta' = NilDelta
    /\ seen' = {}

\* Diff without its precondition: the zero value and no error.
DiffNotRefused(deployment) ==
    /\ pc = "idle"
    /\ ~CanDiff
    /\ ret' = Returned("Diff", deployment, FALSE, 0, EmptyDiff, NoError)
    /\ pre' = tracker
    /\ UNCHANGED <<env, seen, tracker, pc, locals, orphans, ghosts>>

\* dds.Diff(ctx, deployment) when CanDiff is false: the error return.
DiffRefused(deployment) ==
    /\ pc = "idle"
    /\ ~CanDiff
    /\ ret' = Returned("Diff", deployment, FALSE, 0, EmptyDiff, PreconditionError)
    /\ pre' = tracker
    /\ UNCHANGED <<env, seen, tracker, pc, locals, orphans, ghosts>>

\* Diff taking the candidate for the baseline: before := deployment.
DiffStartWrongBaseline(deployment) ==
    /\ pc = "idle"
    /\ CanDiff
    /\ before' = deployment
    /\ after' = deployment
    /\ checkpointHash' = <<>>
    /\ checkpointHashReady' = 1
    /\ hpc' = "hash"
    /\ delta' = NilDelta
    /\ pc' = "edits"
    /\ ret' = NoReturn
    /\ pre' = tracker
    /\ seen' = {<<lastSavedDeployment, sequenceNumber>>}
    /\ UNCHANGED <<env, tracker, orphans, ghosts>>

\* dds.Diff(ctx, deployment) past the precondition: before and after are read,
\* the WaitGroup is raised and the hash goroutine starts.
DiffEnter(deployment) ==
    /\ pc = "idle"
    /\ CanDiff
    /\ before' = lastSavedDeployment
    /\ after' = deployment
    /\ checkpointHash' = <<>>
    /\ checkpointHashReady' = 1
    /\ hpc' = "hash"
    /\ delta' = NilDelta
    /\ pc' = "edits"
    /\ ret' = NoReturn
    /\ pre' = tracker
    /\ seen' = {<<lastSavedDeployment, sequenceNumber>>}
    /\ UNCHANGED <<tracker, orphans, ghosts>>

\* That step, taken by an owner whose own state it does not touch.
DiffStart(deployment) ==
    /\ DiffEnter(deployment)
    /\ UNCHANGED env

\* A goroutine that hashes the baseline: checkpointHash = dds.computeHash(childCtx, before)
HashComputeOfBefore ==
    /\ hpc = "hash"
    /\ checkpointHash' = computeHash(before)
    /\ hpc' = "done"
    /\ UNCHANGED <<env, seen, tracker, pc, before, after, checkpointHashReady, delta, orphans,
                   ret, ghosts, pre>>

\* The goroutine: checkpointHash = dds.computeHash(childCtx, after)
HashCompute ==
    /\ hpc = "hash"
    /\ checkpointHash' = computeHash(after)
    /\ hpc' = "done"
    /\ UNCHANGED <<env, seen, tracker, pc, before, after, checkpointHashReady, delta, orphans,
                   ret, ghosts, pre>>

\* A goroutine that ends without checkpointHashReady.Done().
HashEndsWithoutDone ==
    /\ hpc = "done"
    /\ hpc' = "ended"
    /\ UNCHANGED <<env, seen, tracker, pc, before, after, checkpointHash, checkpointHashReady,
                   delta, orphans, ret, ghosts, pre>>

\* The goroutine's deferred checkpointHashReady.Done()
HashDone ==
    /\ hpc = "done"
    /\ checkpointHashReady' = checkpointHashReady - 1
    /\ hpc' = "ended"
    /\ UNCHANGED <<env, seen, tracker, pc, before, after, checkpointHash, delta, orphans,
                   ret, ghosts, pre>>

\* A delta computation that assigns checkpointHash too.
DiffEditsAlsoHashes ==
    /\ pc = "edits"
    /\ delta' = computeEdits(StringOf(before), StringOf(after))
    /\ checkpointHash' = computeHash(after)
    /\ pc' = "wait"
    /\ UNCHANGED <<env, seen, tracker, before, after, checkpointHashReady, hpc,
                   orphans, ret, ghosts, pre>>

\* delta, err := dds.computeEdits(...) with err == nil
DiffEdits ==
    /\ pc = "edits"
    /\ delta' = computeEdits(StringOf(before), StringOf(after))
    /\ pc' = "wait"
    /\ UNCHANGED <<env, seen, tracker, before, after, checkpointHash, checkpointHashReady, hpc,
                   orphans, ret, ghosts, pre>>

\* The error return handing out the hash that is already there.
DiffEditsFailPartial ==
    /\ pc = "edits"
    /\ hpc = "ended" \/ orphans < MaxOrphans
    /\ ret' = Returned("Diff", after, FALSE, 0,
                       [EmptyDiff EXCEPT !.checkpointHash = checkpointHash],
                       EncodingError)
    /\ orphans' = IF hpc = "ended" THEN orphans ELSE orphans + 1
    /\ pc' = "idle"
    /\ FrameGone
    /\ UNCHANGED <<env, tracker, ghosts, pre>>

\* delta, err := dds.computeEdits(...) with err != nil: Diff returns at once,
\* and a hash goroutine that has not ended runs on by itself.
DiffEditsFail ==
    /\ pc = "edits"
    /\ hpc = "ended" \/ orphans < MaxOrphans
    /\ ret' = Returned("Diff", after, FALSE, 0, EmptyDiff, EncodingError)
    /\ orphans' = IF hpc = "ended" THEN orphans ELSE orphans + 1
    /\ pc' = "idle"
    /\ FrameGone
    /\ UNCHANGED <<env, tracker, ghosts, pre>>

\* A hash goroutine left behind by a returned Diff ends.
OrphanEnds ==
    /\ orphans > 0
    /\ orphans' = orphans - 1
    /\ UNCHANGED <<env, seen, tracker, pc, locals, ret, ghosts, pre>>

\* Diff advancing the counter itself when it returns a result.
DiffReturnAdvances ==
    /\ pc = "wait"
    /\ checkpointHashReady = 0
    /\ ret' = Returned("Diff", after, FALSE, 0,
                       [sequenceNumber |-> sequenceNumber,
                        checkpointHash |-> checkpointHash,
                        deploymentDelta |-> delta],
                       NoError)
    /\ pc' = "idle"
    /\ FrameGone
    /\ sequenceNumber' = sequenceNumber + 1
    /\ UNCHANGED <<env, lastSavedDeployment, minimalDiffSize, orphans, ghosts, pre>>

\* A Diff that assembles its result without checkpointHashReady.Wait().
DiffReturnWithoutWait ==
    /\ pc = "wait"
    /\ ret' = Returned("Diff", after, FALSE, 0,
                       [sequenceNumber |-> sequenceNumber,
                        checkpointHash |-> checkpointHash,
                        deploymentDelta |-> delta],
                       NoError)
    /\ pc' = "idle"
    /\ FrameGone
    /\ UNCHANGED <<env, tracker, orphans, ghosts, pre>>

\* checkpointHashReady.Wait() returns, the result is built and returned.
DiffReturn ==
    /\ pc = "wait"
    /\ checkpointHashReady = 0
    /\ ret' = Returned("Diff", after, FALSE, 0,
                       [sequenceNumber |-> sequenceNumber,
                        checkpointHash |-> checkpointHash,
                        deploymentDelta |-> delta],
                       NoError)
    /\ pc' = "idle"
    /\ FrameGone
    /\ UNCHANGED <<env, tracker, orphans, ghosts, pre>>

Next ==
    \/ CallSequenceNumber
    \/ CallCanDiff
    \/ \E new \in Messages : CallShouldDiff(new)
    \/ \E deployment \in Messages : Saved(deployment)
    \/ \E deployment \in Messages : DiffRefused(deployment)
    \/ \E deployment \in Messages : DiffStart(deployment)
    \/ HashCompute
    \/ HashDone
    \/ DiffEdits
    \/ DiffEditsFail
    \/ OrphanEnds
    \/ DiffReturn

Spec == Init /\ [][Next]_vars

\* ------------------------------------------- Saved called during a Diff
\* dds.Saved(ctx, deployment) called from another goroutine while a Diff call
\* is between its read of lastSavedDeployment and its read of sequenceNumber.
\* The tracker has no lock, so nothing orders the two calls; of what the
\* unsynchronized reads may see, this takes the values before or after the
\* whole Saved.
SavedMeanwhile(deployment) ==
    /\ pc # "idle"
    /\ nSaved < MaxSaved
    /\ lastSavedDeployment' = deployment
    /\ sequenceNumber' = sequenceNumber + 1
    /\ nSaved' = nSaved + 1
    /\ savedArg' = deployment
    /\ seen' = seen \cup {<<deployment, sequenceNumber + 1>>}
    /\ UNCHANGED <<env, minimalDiffSize, pc, locals, orphans, ret, ctorMinimalDiffSize, pre>>

\* A tracker with threshold 0, whose owner calls Saved and Diff one at a time
\* while another goroutine may call Saved at any moment of a Diff.
InitRace ==
    /\ NewTracker(0)
    /\ NoUpdateYet
    /\ NoCallYet("free")
    /\ NewWriter

NextRace ==
    \/ \E deployment \in Messages : Saved(deployment)
    \/ \E deployment \in Messages : DiffStart(deployment)
    \/ HashCompute
    \/ HashDone
    \/ DiffEdits
    \/ DiffReturn
    \/ \E deployment \in Messages : SavedMeanwhile(deployment)

SpecRace == InitRace /\ [][NextRace]_vars

\* ------------------------------------------------ the scheduling of Diff
\* dds.computeEdits returns to Diff, with the delta or with an error: the step
\* DiffEdits or DiffEditsFail, whichever it is.
ComputeEditsReturns ==
    /\ pc = "edits"
    /\ pc' \in {"wait", "idle"}

\* The scheduler runs the hash goroutine and the caller of a Diff call in
\* flight: each step of theirs that stays possible is taken, and
\* computeHash, computeEdits and the wait, once possible, return.
FairDiff ==
    /\ WF_vars(HashCompute)
    /\ WF_vars(HashDone)
    /\ WF_pc(ComputeEditsReturns)
    /\ WF_vars(DiffReturn)

\* The owner's Saved and Diff calls, one at a time, on the tracker of InitRace.
NextDiff ==
    \/ \E deployment \in Messages : Saved(deployment)
    \/ \E deployment \in Messages : DiffRefused(deployment)
    \/ \E deployment \in Messages : DiffStart(deployment)
    \/ HashCompute
    \/ HashDone
    \/ DiffEdits
    \/ DiffEditsFail
    \/ OrphanEnds
    \/ DiffReturn

FairSpec == InitRace /\ [][NextDiff]_vars /\ FairDiff

\* ------------------------------------------------- the delta's round trip
\* A tracker built with threshold 0 on which Saved(doc) has returned once, for
\* every non-nil document doc.
InitRoundTrip ==
    /\ \E doc \in Documents \ {NilMsg} :
          /\ lastSavedDeployment = doc
          /\ savedArg = doc
          /\ pre = <<NilMsg, 1, 0>>
          /\ ret = [NoReturn EXCEPT !.op = "Saved", !.arg = doc]
    /\ sequenceNumber = 2
    /\ minimalDiffSize = 0
    /\ ctorMinimalDiffSize = 0
    /\ nSaved = 1
    /\ pc = "idle"
    /\ before = NilMsg
    /\ after = NilMsg
    /\ checkpointHash = <<>>
    /\ checkpointHashReady = 0
    /\ hpc = "none"
    /\ delta = NilDelta
    /\ orphans = 0
    /\ seen = {}
    /\ NoUpdateYet
    /\ NoCallYet("free")
    /\ NewWriter

\* Diff calls on that tracker, with every document as the candidate, in which
\* json.Marshal returns no error.
NextRoundTrip ==
    \/ \E deployment \in Documents : DiffStart(deployment)
    \/ HashCompute
    \/ HashDone
    \/ DiffEdits
    \/ DiffReturn

SpecRoundTrip == InitRoundTrip /\ [][NextRoundTrip]_vars

\* ------------------------------------------------------- the update cycle
\* The collaborator's cycle and the backend's contract (spec.md, section 6):
\* neither is in the tracker's source file.

\* Step 1: the collaborator serializes the engine state to bytes.
Serialize(deployment) ==
    /\ phase = "serialize"
    /\ pc = "idle"
    /\ nSaved < MaxSaved
    /\ snapshot' = deployment
    /\ phase' = "consult"
    /\ kept' = NoKept
    /\ response' = "none"
    /\ UNCHANGED <<diffState, locking, logging, stored, expected>>

\* Step 2: it calls ShouldDiff(bytes) ...
CycleShouldDiff ==
    /\ phase = "consult"
    /\ CallShouldDiff(snapshot)

\* ... and takes the delta path or the full-document path on its answer.
Decide ==
    /\ phase = "consult"
    /\ ret.op = "ShouldDiff"
    /\ phase' = IF ret.bool THEN "diff" ELSE "full"
    /\ UNCHANGED <<diffState, locking, logging, snapshot, kept, response, stored, expected>>

\* Step 3: it calls Diff(bytes); after a transmission that failed, it calls
\* Diff(bytes) again.
CycleDiff ==
    /\ phase = "diff"
    /\ DiffEnter(snapshot)
    /\ kept' = [kept EXCEPT !.again = kept.set]
    /\ UNCHANGED <<snapshot, phase, response, stored, expected, locking, logging>>

\* Diff returned the encoding error: the cycle ends with nothing sent.
GiveUp ==
    /\ phase = "diff"
    /\ pc = "idle"
    /\ ret.op = "Diff"
    /\ ret.err # NoError
    /\ phase' = "serialize"
    /\ UNCHANGED <<diffState, locking, logging, snapshot, kept, response, stored, expected>>

\* The delta update did not reach the backend; the collaborator keeps the
\* DiffResult it had and will call Diff again.
TransmissionFails ==
    /\ phase = "diff"
    /\ pc = "idle"
    /\ ret.op = "Diff"
    /\ ret.err = NoError
    /\ kept' = [kept EXCEPT !.set = TRUE, !.diff = ret.diff]
    /\ UNCHANGED <<diffState, locking, logging, snapshot, phase, response, stored, expected>>

\* The backend's check of a delta update: the sequenceNumber is the version it
\* expects next and the hash of its stored document with the delta applied is
\* the checkpointHash.
Acceptable(diff) ==
    /\ diff.sequenceNumber = expected
    /\ computeHash(Raw(Replay(stored, diff.deploymentDelta))) = diff.checkpointHash

\* The delta update {sequenceNumber, checkpointHash, delta} reaches the backend,
\* which applies the delta to its stored document and accepts or rejects.
SendDelta ==
    /\ phase = "diff"
    /\ pc = "idle"
    /\ ret.op = "Diff"
    /\ ret.err = NoError
    /\ IF Acceptable(ret.diff)
         THEN /\ stored' = Replay(stored, ret.diff.deploymentDelta)
              /\ expected' = expected + 1
              /\ response' = "accepted"
              /\ phase' = "save"
         ELSE /\ response' = "rejected"
              /\ phase' = "serialize"
              /\ UNCHANGED <<stored, expected>>
    /\ UNCHANGED <<diffState, locking, logging, snapshot, kept>>

\* Step 4: the full snapshot reaches the backend, which stores it.
SendFull ==
    /\ phase = "full"
    /\ stored' = snapshot.bytes
    /\ expected' = expected + 1
    /\ response' = "accepted"
    /\ phase' = "save"
    /\ UNCHANGED <<diffState, locking, logging, snapshot, kept>>

\* Step 5: on the acceptance of either message, it calls Saved(bytes), once.
CycleSaved ==
    /\ phase = "save"
    /\ ret.op # "Saved"
    /\ Saved(snapshot)

\* Saved returned; the next cycle starts.
CycleEnds ==
    /\ phase = "save"
    /\ ret.op = "Saved"
    /\ phase' = "serialize"
    /\ UNCHANGED <<diffState, locking, logging, snapshot, kept, response, stored, expected>>

NextProtocol ==
    \/ \E deployment \in Messages : Serialize(deployment)
    \/ CycleShouldDiff
    \/ Decide
    \/ CycleDiff
    \/ HashCompute
    \/ HashDone
    \/ DiffEdits
    \/ DiffEditsFail
    \/ OrphanEnds
    \/ DiffReturn
    \/ GiveUp
    \/ TransmissionFails
    \/ SendDelta
    \/ SendFull
    \/ CycleSaved
    \/ CycleEnds

SpecProtocol == Init /\ [][NextProtocol]_vars

\* ------------------------------------------------------- synchronouslyDo
\* t.Fatalf("timed out waiting for lock on %s", lockfile), formatted.
TimedOutMessage == "timed out waiting for lock on lockfile"

\* synchronouslyDo(t, lockfile, timeout, fn) up to its select: the context is
\* made and the goroutine started.
synchronouslyDo(c) ==
    /\ mpc[c] = "off"
    /\ mpc' = [mpc EXCEPT ![c] = "select"]
    /\ gpc' = [gpc EXCEPT ![c] = "loop"]
    /\ UNCHANGED <<mutex, ctxErr, lockWait, unlockDeferred, fnCalls, fatal, messages, early>>
    /\ UNCHANGED <<diffState, protocol, logging>>

\* The timeout of context.WithTimeout expires while the call is in its select.
Timeout(c) ==
    /\ mpc[c] = "select"
    /\ ~ctxErr[c]
    /\ ctxErr' = [ctxErr EXCEPT ![c] = TRUE]
    /\ UNCHANGED <<mutex, lockWait, mpc, gpc, unlockDeferred, fnCalls, fatal, messages, early>>
    /\ UNCHANGED <<diffState, protocol, logging>>

\* The goroutine: for ctx.Err() == nil
LoopTest(c) ==
    /\ gpc[c] = "loop"
    /\ gpc' = [gpc EXCEPT ![c] = IF ctxErr[c] THEN "check" ELSE "lock"]
    /\ UNCHANGED <<mutex, ctxErr, lockWait, mpc, unlockDeferred, fnCalls, fatal, messages, early>>
    /\ UNCHANGED <<diffState, protocol, logging>>

\* mutex.Lock() returns nil: it waited until the file lock was free and took
\* it; the goroutine defers the Unlock and leaves the loop.
Lock(c) ==
    /\ gpc[c] = "lock"
    /\ mutex = "free"
    /\ mutex' = c
    /\ unlockDeferred' = [unlockDeferred EXCEPT ![c] = TRUE]
    /\ gpc' = [gpc EXCEPT ![c] = "check"]
    /\ UNCHANGED <<ctxErr, lockWait, mpc, fnCalls, fatal, messages, early>>
    /\ UNCHANGED <<diffState, protocol, logging>>

\* mutex.Lock() returns an error: the goroutine goes to sleep.
LockFails(c) ==
    /\ gpc[c] = "lock"
    /\ gpc' = [gpc EXCEPT ![c] = "sleep"]
    /\ UNCHANGED <<mutex, ctxErr, lockWait, mpc, unlockDeferred, fnCalls, fatal, messages, early>>
    /\ UNCHANGED <<diffState, protocol, logging>>

\* time.Sleep(1 * time.Second); continue
Sleep(c) ==
    /\ gpc[c] = "sleep"
    /\ gpc' = [gpc EXCEPT ![c] = "loop"]
    /\ UNCHANGED <<mutex, ctxErr, lockWait, mpc, unlockDeferred, fnCalls, fatal, messages, early>>
    /\ UNCHANGED <<diffState, protocol, logging>>

\* A goroutine that does not look at the context again after the loop.
CtxCheckSkipped(c) ==
    /\ gpc[c] = "check"
    /\ gpc' = [gpc EXCEPT ![c] = "fn"]
    /\ UNCHANGED <<mutex, ctxErr, lockWait, mpc, unlockDeferred, fnCalls, fatal, messages, early>>
    /\ UNCHANGED <<diffState, protocol, logging>>

\* After the loop: if ctx.Err() == nil
CtxCheck(c) ==
    /\ gpc[c] = "check"
    /\ gpc' = [gpc EXCEPT ![c] = IF ctxErr[c] THEN "defers" ELSE "fn"]
    /\ UNCHANGED <<mutex, ctxErr, lockWait, mpc, unlockDeferred, fnCalls, fatal, messages, early>>
    /\ UNCHANGED <<diffState, protocol, logging>>

\* fn() is invoked ...
FnStart(c) ==
    /\ gpc[c] = "fn"
    /\ fnCalls' = [fnCalls EXCEPT ![c] = @ + 1]
    /\ gpc' = [gpc EXCEPT ![c] = "infn"]
    /\ UNCHANGED <<mutex, ctxErr, lockWait, mpc, unlockDeferred, fatal, messages, early>>
    /\ UNCHANGED <<diffState, protocol, logging>>

\* ... and returns.
FnEnd(c) ==
    /\ gpc[c] = "infn"
    /\ gpc' = [gpc EXCEPT ![c] = "close"]
    /\ UNCHANGED <<mutex, ctxErr, lockWait, mpc, unlockDeferred, fnCalls, fatal, messages, early>>
    /\ UNCHANGED <<diffState, protocol, logging>>

\* close(lockWait)
CloseLockWait(c) ==
    /\ gpc[c] = "close"
    /\ lockWait' = [lockWait EXCEPT ![c] = TRUE]
    /\ gpc' = [gpc EXCEPT ![c] = "defers"]
    /\ UNCHANGED <<mutex, ctxErr, mpc, unlockDeferred, fnCalls, fatal, messages, early>>
    /\ UNCHANGED <<diffState, protocol, logging>>

\* A goroutine that returns without running its deferred mutex.Unlock().
GoroutineEndsLocked(c) ==
    /\ gpc[c] = "defers"
    /\ gpc' = [gpc EXCEPT ![c] = "done"]
    /\ UNCHANGED <<mutex, ctxErr, lockWait, mpc, unlockDeferred, fnCalls, fatal, messages, early>>
    /\ UNCHANGED <<diffState, protocol, logging>>

\* The goroutine returns: the deferred mutex.Unlock() runs if it was deferred.
GoroutineEnds(c) ==
    /\ gpc[c] = "defers"
    /\ mutex' = IF unlockDeferred[c] THEN "free" ELSE mutex
    /\ gpc' = [gpc EXCEPT ![c] = "done"]
    /\ UNCHANGED <<ctxErr, lockWait, mpc, unlockDeferred, fnCalls, fatal, messages, early>>
    /\ UNCHANGED <<diffState, protocol, logging>>

\* nonfatalT.Fatalf(msg, args...)
Fatalf(c, msg) ==
    /\ fatal' = [fatal EXCEPT ![c] = TRUE]
    /\ messages' = [messages EXCEPT ![c] = Append(@, msg)]

\* select, case <-ctx.Done(): t.Fatalf(...); synchronouslyDo returns.
SelectCtxDone(c) ==
    /\ mpc[c] = "select"
    /\ ctxErr[c]
    /\ Fatalf(c, TimedOutMessage)
    /\ mpc' = [mpc EXCEPT ![c] = "returned"]
    /\ UNCHANGED <<mutex, ctxErr, lockWait, gpc, unlockDeferred, fnCalls, early>>
    /\ UNCHANGED <<diffState, protocol, logging>>

\* select, case <-lockWait: synchronouslyDo returns and the deferred cancel()
\* runs.
SelectLockWait(c) ==
    /\ mpc[c] = "select"
    /\ lockWait[c]
    /\ mpc' = [mpc EXCEPT ![c] = "returned"]
    /\ ctxErr' = [ctxErr EXCEPT ![c] = TRUE]
    /\ UNCHANGED <<mutex, lockWait, gpc, unlockDeferred, fnCalls, fatal, messages, early>>
    /\ UNCHANGED <<diffState, protocol, logging>>

\* The holder that had the lock before the calls, as the test has, unlocks.
OtherUnlock ==
    /\ mutex = "other"
    /\ mutex' = "free"
    /\ early' = [c \in Callers |-> early[c] \/ ~ctxErr[c]]
    /\ UNCHANGED <<ctxErr, lockWait, mpc, gpc, unlockDeferred, fnCalls, fatal, messages>>
    /\ UNCHANGED <<diffState, protocol, logging>>

\* The lock is free, or it was locked before the calls as in
\* TestSynchronouslyDo_timeout.
InitLock ==
    /\ NewTracker(0)
    /\ NoUpdateYet
    /\ \E holder \in {"free", "other"} : NoCallYet(holder)
    /\ NewWriter

NextLock ==
    \/ \E c \in Callers : synchronouslyDo(c)
    \/ \E c \in Callers : Timeout(c)
    \/ \E c \in Callers : LoopTest(c)
    \/ \E c \in Callers : Lock(c)
    \/ \E c \in Callers : LockFails(c)
    \/ \E c \in Callers : Sleep(c)
    \/ \E c \in Callers : CtxCheck(c)
    \/ \E c \in Callers : FnStart(c)
    \/ \E c \in Callers : FnEnd(c)
    \/ \E c \in Callers : CloseLockWait(c)
    \/ \E c \in Callers : GoroutineEnds(c)
    \/ \E c \in Callers : SelectCtxDone(c)
    \/ \E c \in Callers : SelectLockWait(c)
    \/ OtherUnlock

SpecLock == InitLock /\ [][NextLock]_vars

\* The timer of a call in its select fires, and a call whose select has a
\* ready case takes one.
FairLock ==
    \A c \in Callers :
        /\ WF_vars(Timeout(c))
        /\ WF_vars(SelectCtxDone(c) \/ SelectLockWait(c))

FairSpecLock == InitLock /\ [][NextLock]_vars /\ FairLock

\* A goroutine that holds the lock keeps running: the Go scheduler runs it, and
\* the fn it calls returns.
FairGoroutine ==
    \A c \in Callers :
        /\ WF_vars(CtxCheck(c))
        /\ WF_vars(FnStart(c))
        /\ WF_vars(FnEnd(c))
        /\ WF_vars(CloseLockWait(c))
        /\ WF_vars(GoroutineEnds(c))

FairSpecSerial == InitLock /\ [][NextLock]_vars /\ FairLock /\ FairGoroutine

\* ----------------------------------------------------------- testLogWriter
\* bytes.IndexByte(bs, b): the index, from 0, of the first b in bs, or -1.
IndexByte(bs, b) ==
    IF \E i \in 1..Len(bs) : bs[i] = b
    THEN (CHOOSE i \in 1..Len(bs) : bs[i] = b /\ \A j \in 1..(i - 1) : bs[j] # b) - 1
    ELSE -1

\* The loop of Write, for len(bs) > 0, from the buffer b and the messages out
\* logged so far: what is left in the buffer and what has been logged.
RECURSIVE WriteLoop(_, _, _)
WriteLoop(bs, b, out) ==
    IF Len(bs) = 0 THEN [buff |-> b, logs |-> out]
    ELSE LET idx == IndexByte(bs, 10) IN
         IF idx < 0 THEN [buff |-> b \o bs, logs |-> out]
         ELSE LET line == SubSeq(bs, 1, idx)
                  rest == SubSeq(bs, idx + 2, Len(bs))
              IN  IF Len(b) = 0
                  THEN WriteLoop(rest, b, Append(out, line))
                  ELSE WriteLoop(rest, <<>>, Append(out, b \o line))

\* A Write that logs what it is given without waiting for the newline.
WriteUnbuffered(bs) ==
    /\ nWrites < MaxWrites
    /\ LET r == WriteLoop(bs, <<>>, logs) IN
          /\ buff' = <<>>
          /\ logs' = IF Len(r.buff) > 0 THEN Append(r.logs, r.buff) ELSE r.logs
    /\ written' = written \o bs
    /\ wret' = [op |-> "Write", input |-> bs, n |-> Len(bs), err |-> NoError]
    /\ nWrites' = nWrites + 1
    /\ UNCHANGED nFlush
    /\ UNCHANGED <<diffState, protocol, locking>>

\* w.Write(bs): returns len(bs), nil.
Write(bs) ==
    /\ nWrites < MaxWrites
    /\ LET r == WriteLoop(bs, buff, logs) IN
          /\ buff' = r.buff
          /\ logs' = r.logs
    /\ written' = written \o bs
    /\ wret' = [op |-> "Write", input |-> bs, n |-> Len(bs), err |-> NoError]
    /\ nWrites' = nWrites + 1
    /\ UNCHANGED nFlush
    /\ UNCHANGED <<diffState, protocol, locking>>

\* w.Flush(): the buffer is logged if it is not empty, and is left as it is.
Flush ==
    /\ nFlush < MaxFlush
    /\ logs' = IF Len(buff) > 0 THEN Append(logs, buff) ELSE logs
    /\ wret' = [op |-> "Flush", input |-> <<>>, n |-> 0, err |-> NoError]
    /\ nFlush' = nFlush + 1
    /\ UNCHANGED <<buff, written, nWrites>>
    /\ UNCHANGED <<diffState, protocol, locking>>

InitLog ==
    /\ NewTracker(0)
    /\ NoUpdateYet
    /\ NoCallYet("free")
    /\ NewWriter

NextLog ==
    \/ \E bs \in Texts(MaxLen) : Write(bs)
    \/ Flush

SpecLog == InitLog /\ [][NextLog]_vars

\* ------------------------------------------------------------------ claims
\* C1: sequenceNumber starts at 1 and every Saved call adds exactly 1, so after
\* n Saved calls, with any other calls between them, the counter is n + 1 and
\* SequenceNumber() returns n + 1.
C1_MonotonicSequencing ==
    /\ sequenceNumber = nSaved + 1
    /\ ret.op = "SequenceNumber" => ret.int = nSaved + 1

\* SequenceNumber() has returned 3 after two Saved calls.
C1_Witness ==
    /\ nSaved = 2
    /\ ret.op = "SequenceNumber"
    /\ ret.int = 3

\* C2: lastSaved is absent (CanDiff() is false) exactly when no Saved call has
\* occurred, whatever snapshots Saved was given, nil included; CanDiff() is
\* true after every Saved call.
C2_AbsentIffNeverSaved ==
    /\ lastSavedDeployment.isNil <=> (sequenceNumber = 1 /\ nSaved = 0)
    /\ ret.op = "CanDiff" => (ret.bool <=> nSaved > 0)
    /\ ret.op = "Saved" => CanDiff

\* C3: Diff on a tracker without a baseline returns the empty result and the
\* precondition error for every candidate, starts neither computation and
\* leaves the tracker's fields as they were.
C3_DiffRefusedWithoutBaseline ==
    /\ (ret.op = "Diff" /\ pre[1].isNil) =>
          /\ ret.err = PreconditionError
          /\ ret.diff = EmptyDiff
          /\ tracker = pre
          /\ pc = "idle"
    /\ (pc # "idle" \/ hpc # "none" \/ checkpointHashReady # 0) => ~pre[1].isNil

\* Diff("a") has been refused on a tracker on which Saved was never called.
C3_Witness ==
    /\ ret.op = "Diff"
    /\ ret.arg = Raw(<<97>>)
    /\ ret.err = PreconditionError
    /\ nSaved = 0

\* C4: ShouldDiff(candidate) is true exactly when there is a baseline and both
\* the baseline and the candidate are at least as long as the threshold the
\* tracker was built with; the threshold never changes; and when ShouldDiff is
\* true, Diff of that candidate is not refused.
C4_HeuristicGating ==
    /\ minimalDiffSize = ctorMinimalDiffSize
    /\ ret.op = "ShouldDiff" =>
          /\ ret.bool <=> /\ ~lastSavedDeployment.isNil
                          /\ Len(lastSavedDeployment.bytes) >= ctorMinimalDiffSize
                          /\ Len(ret.arg.bytes) >= ctorMinimalDiffSize
          /\ ret.bool => (ENABLED DiffStart(ret.arg) /\ ~ENABLED DiffRefused(ret.arg))

\* ShouldDiff has returned true with threshold 2 for a baseline and a
\* candidate of exactly 2 bytes.
C4_Witness ==
    /\ ret.op = "ShouldDiff"
    /\ ret.bool
    /\ minimalDiffSize = 2
    /\ Len(lastSavedDeployment.bytes) = 2
    /\ Len(ret.arg.bytes) = 2

\* C5: a Diff call, while it runs and when it has returned (a result, the
\* precondition error or the encoding error), leaves lastSaved, sequenceNumber
\* and minimalDiffSize as they were when it was entered; a step that changes
\* lastSaved or sequenceNumber is a Saved call.
C5_DiffLeavesTracker ==
    [][/\ (ret'.op = "Diff" \/ pc' # "idle") => tracker' = pre'
       /\ tracker' # tracker => (pc = "idle" /\ ret'.op = "Saved")]_vars

\* A Diff has returned a result after two Saved calls.
C5_Witness ==
    /\ ret.op = "Diff"
    /\ ret.err = NoError
    /\ nSaved = 2
    /\ ret.diff.sequenceNumber = 3

\* C6: a Diff that returns a result after k Saved calls (k >= 1) returns the
\* counter of that moment, k + 1, which is what SequenceNumber() returns, and a
\* delta computed from the argument of the most recent Saved call to the
\* candidate.
C6_DiffAgainstLastSaved ==
    (ret.op = "Diff" /\ ret.err = NoError) =>
        /\ nSaved >= 1
        /\ ret.diff.sequenceNumber = nSaved + 1
        /\ ret.diff.sequenceNumber = SequenceNumber
        /\ ret.diff.deploymentDelta = computeEdits(StringOf(savedArg), StringOf(ret.arg))

\* After Saved twice, the second time of "a\n", Diff("\na") has returned
\* sequence number 3.
C6_Witness ==
    /\ ret.op = "Diff"
    /\ ret.err = NoError
    /\ nSaved = 2
    /\ savedArg = Raw(<<97, 10>>)
    /\ ret.arg = Raw(<<10, 97>>)
    /\ ret.diff.sequenceNumber = 3

\* C7: Saved(snapshot) always goes through, whatever was called before: it
\* returns no error, lastSaved is that snapshot, the counter is one more than
\* before, and between calls every snapshot is accepted.
C7_SavedUnconditional ==
    /\ ret.op = "Saved" =>
          /\ ret.err = NoError
          /\ lastSavedDeployment = ret.arg
          /\ sequenceNumber = pre[2] + 1
          /\ minimalDiffSize = pre[3]
    /\ (pc = "idle" /\ nSaved < MaxSaved) =>
          \A deployment \in Messages : ENABLED Saved(deployment)

\* Saved has returned directly after a Diff of another candidate.
C7_Witness ==
    /\ ret.op = "Saved"
    /\ ret.prevOp = "Diff"
    /\ ~ret.prevSame
    /\ lastSavedDeployment = ret.arg
    /\ nSaved = 2

\* C8: CanDiff, SequenceNumber and ShouldDiff leave lastSaved, sequenceNumber
\* and minimalDiffSize as they were, and what they returned is what the same
\* call returns in the state they leave.
C8_ReadsDoNotMutate ==
    /\ ret.op \in {"CanDiff", "SequenceNumber", "ShouldDiff"} => tracker = pre
    /\ ret.op = "CanDiff" => ret.bool = CanDiff
    /\ ret.op = "SequenceNumber" => ret.int = SequenceNumber
    /\ ret.op = "ShouldDiff" => ret.bool = ShouldDiff(ret.arg)

\* SequenceNumber() has returned 2 after one Saved call.
C8_Witness ==
    /\ ret.op = "SequenceNumber"
    /\ ret.int = 2
    /\ nSaved = 1
    /\ tracker = pre

\* C9: when the encoding fails, Diff returns the error with the empty result
\* (no hash, no delta, no sequence number), the tracker's fields are as they
\* were, and the same Diff can be called again.
C9_EncodingFailure ==
    (ret.op = "Diff" /\ ret.err = EncodingError) =>
        /\ ret.diff = EmptyDiff
        /\ ret.diff.checkpointHash = <<>>
        /\ ret.diff.deploymentDelta.isNil
        /\ ret.diff.sequenceNumber = 0
        /\ tracker = pre
        /\ pc = "idle"
        /\ ENABLED DiffStart(ret.arg)

\* The encoding has failed when the hash had been computed already.
C9_Witness ==
    /\ ret.op = "Diff"
    /\ ret.err = EncodingError
    /\ ret.hash # <<>>
    /\ ret.diff = EmptyDiff

\* Whether a text holds none of the bytes that no UTF-8 text holds.
ValidText(text) == \A i \in 1..Len(text) : text[i] \notin NeverUTF8

\* C10 as stated: for all byte sequences before and after, replaying the delta
\* of Diff on before gives after, byte for byte.
C10_RoundTripAllBytes ==
    (ret.op = "Diff" /\ ret.err = NoError) =>
        Replay(StringOf(pre[1]), ret.diff.deploymentDelta) = StringOf(ret.arg)

\* C10, amended: for all byte sequences before and all after that are valid
\* UTF-8, replaying the delta of Diff on before gives after, byte for byte.
C10_RoundTripValidText ==
    (ret.op = "Diff" /\ ret.err = NoError /\ ValidText(StringOf(ret.arg))) =>
        Replay(StringOf(pre[1]), ret.diff.deploymentDelta) = StringOf(ret.arg)

\* Diff has returned a delta from "a\na", which ends without a newline, to
\* "\na\n", and the delta deletes and inserts.
C10_Witness ==
    /\ ret.op = "Diff"
    /\ ret.err = NoError
    /\ pre[1] = Raw(<<97, 10, 97>>)
    /\ ret.arg = Raw(<<10, 97, 10>>)
    /\ Len(ret.diff.deploymentDelta.edits) >= 2
    /\ Replay(<<97, 10, 97>>, ret.diff.deploymentDelta) = <<10, 97, 10>>

\* C11: the checkpointHash of a result Diff returned is the hash of the
\* candidate and of nothing else: of all the byte sequences of the corpus,
\* exactly the candidate's has this hash, whatever the baseline, the counter
\* and the threshold are; so two calls with the same candidate return the same
\* hash, two calls with distinct candidates return distinct hashes, and the
\* hash of a baseline that differs from the candidate is never returned.
C11_HashOfCandidateOnly ==
    (ret.op = "Diff" /\ ret.err = NoError) =>
        /\ \A deployment \in Messages :
              (ret.diff.checkpointHash = computeHash(deployment))
                  <=> (deployment.bytes = ret.arg.bytes)
        /\ (pre[1].bytes # ret.arg.bytes) =>
              ret.diff.checkpointHash # computeHash(pre[1])

\* Diff("a") has returned a result against the baseline "\n", at threshold 1.
C11_Witness ==
    /\ ret.op = "Diff"
    /\ ret.err = NoError
    /\ ret.arg = Raw(<<97>>)
    /\ pre[1] = Raw(<<10>>)
    /\ minimalDiffSize = 1
    /\ ret.diff.checkpointHash = computeHash(Raw(<<97>>))

\* C12: when the collaborator follows the update cycle against a backend that
\* starts expecting version 1, advances by 1 on each accepted update and
\* rejects a delta update with the wrong sequenceNumber or the wrong
\* post-apply hash, no delta update is rejected, and after every Saved the
\* tracker's lastSaved is the backend's stored document and SequenceNumber()
\* is the version the backend expects next.
C12_ProtocolSynchronization ==
    /\ response # "rejected"
    /\ (ret.op = "Saved") =>
          /\ lastSavedDeployment.bytes = stored
          /\ SequenceNumber = expected
          /\ SequenceNumber = nSaved + 1

\* The second cycle took the delta path: the backend accepted the delta from
\* "a\n" to "\na" as version 2 and Saved has returned.
C12_Witness ==
    /\ ret.op = "Saved"
    /\ ret.prevOp = "Diff"
    /\ response = "accepted"
    /\ pre[1] = Raw(<<97, 10>>)
    /\ stored = <<10, 97>>
    /\ expected = 3

\* C19: a Diff call repeated with the same candidate, with no Saved call since
\* the earlier one (the collaborator repeats it after a failed transmission,
\* any number of times), runs against the same baseline and returns the
\* DiffResult the earlier call returned: the same sequenceNumber, the same
\* checkpointHash and the same delta.
C19_RetrySafety ==
    (kept.again /\ ret.op = "Diff" /\ ret.err = NoError) =>
        /\ ret.arg = snapshot
        /\ tracker = pre
        /\ ret.diff = kept.diff

\* In the second cycle the transmission of the delta from "a\n" to "\na" has
\* failed and Diff("\na"), called again, has returned.
C19_Witness ==
    /\ kept.again
    /\ ret.op = "Diff"
    /\ ret.err = NoError
    /\ lastSavedDeployment = Raw(<<97, 10>>)
    /\ snapshot = Raw(<<10, 97>>)
    /\ ret.diff.sequenceNumber = 2
    /\ phase = "diff"

\* C13: when another holder has the file lock from before the call until the
\* call's timeout has expired, synchronouslyDo returns having reported exactly
\* one fatal failure, "timed out waiting for lock on ...", and fn is never
\* invoked: not before the report, and not later when the lock is released.
\* The call does return.
C13_TimesOutWhenLockHeld ==
    /\ [](\A c \in Callers :
            ~early[c] =>
                /\ fnCalls[c] = 0
                /\ gpc[c] \notin {"fn", "infn", "close"}
                /\ ~lockWait[c]
                /\ fatal[c] = (mpc[c] = "returned")
                /\ messages[c] = IF mpc[c] = "returned" THEN <<TimedOutMessage>> ELSE <<>>)
    /\ \A c \in Callers : (mpc[c] = "select") ~> (mpc[c] = "returned")

\* Call t1 timed out and reported while the test held the lock; the lock was
\* then released, the goroutine of t1 took it, did not invoke fn, and unlocked.
C13_Witness ==
    /\ ~early["t1"]
    /\ mpc["t1"] = "returned"
    /\ fatal["t1"]
    /\ gpc["t1"] = "done"
    /\ unlockDeferred["t1"]
    /\ fnCalls["t1"] = 0
    /\ mutex = "free"

\* The pieces of text between its newlines: every piece that a newline ends,
\* and the piece after the last newline if it is not empty and last is TRUE.
RECURSIVE Pieces(_, _, _)
Pieces(text, cur, last) ==
    IF text = <<>> THEN (IF last /\ cur # <<>> THEN <<cur>> ELSE <<>>)
    ELSE IF Head(text) = 10 THEN <<cur>> \o Pieces(Tail(text), <<>>, last)
    ELSE Pieces(Tail(text), Append(cur, Head(text)), last)

\* C14: every Write returns (len(input), nil); until Flush is called the
\* messages logged are the lines of the written bytes whose newline has been
\* written; and after any sequence of Write calls followed by one Flush they
\* are all the written bytes split at each newline, with the final piece only
\* if it is not empty.
C14_LineSplitting ==
    /\ (wret.op = "Write") => (wret.n = Len(wret.input) /\ wret.err = NoError)
    /\ (nFlush = 0) => (logs = Pieces(written, <<>>, FALSE))
    /\ (nFlush = 1 /\ wret.op = "Flush") => (logs = Pieces(written, <<>>, TRUE))

\* Three Write calls, of "a\na" in all, and then Flush have logged "a" and "a".
C14_Witness ==
    /\ nFlush = 1
    /\ wret.op = "Flush"
    /\ nWrites = 3
    /\ written = <<97, 10, 97>>
    /\ buff = <<97>>
    /\ logs = <<(<<97>>), (<<97>>)>>

\* C15: a Diff call that passed the precondition does not return, with a result
\* or with the encoding error, before its hash goroutine has ended and its
\* delta computation has completed.
C15_JoinOnEveryPath ==
    (ret.op = "Diff" /\ ret.err # PreconditionError) => ret.joined

\* C16: the result of a successful Diff is assembled after the join: the hash
\* goroutine has ended, the checkpointHash of the result is the value that
\* goroutine wrote, the hash of the candidate and not the unset empty string,
\* and the delta is the finished encoding; while the goroutine has not ended,
\* the caller cannot leave the wait.
C16_ResultAfterJoin ==
    /\ (ret.op = "Diff" /\ ret.err = NoError) =>
          /\ ret.joined
          /\ ret.hash # <<>>
          /\ ret.diff.checkpointHash = ret.hash
          /\ ret.hash = computeHash(ret.arg)
          /\ ~ret.diff.deploymentDelta.isNil
          /\ ret.diff.deploymentDelta = computeEdits(StringOf(pre[1]), StringOf(ret.arg))
    /\ (pc = "wait" /\ hpc # "ended") => ~ENABLED DiffReturn

\* Diff("a") against the baseline "" has returned version 2 with the hash of
\* "a" and a delta that is not nil.
C16_Witness ==
    /\ ret.op = "Diff"
    /\ ret.err = NoError
    /\ ret.joined
    /\ ret.arg = Raw(<<97>>)
    /\ pre[1] = Raw(<<>>)
    /\ ret.diff.sequenceNumber = 2
    /\ ret.diff.checkpointHash = computeHash(Raw(<<97>>))
    /\ ~ret.diff.deploymentDelta.isNil

\* C17 as stated: in every DiffResult, also when a Saved call was interleaved
\* with the Diff call, the baseline the delta was computed from and the
\* sequenceNumber returned are a pair the tracker held at one moment of the
\* call.
C17_ConsistentPair ==
    (ret.op = "Diff" /\ ret.err = NoError) =>
        /\ <<ret.before, ret.diff.sequenceNumber>> \in ret.seen
        /\ ret.diff.deploymentDelta = computeEdits(StringOf(ret.before), StringOf(ret.arg))

\* C17, amended: in every DiffResult of a Diff call with which no Saved call
\* was interleaved, the baseline the delta was computed from and the
\* sequenceNumber returned are the pair the tracker held during the call:
\* version N's delta is computed from lastSaved at sequence N.
C17_ConsistentPairSerialized ==
    (ret.op = "Diff" /\ ret.err = NoError /\ Cardinality(ret.seen) = 1) =>
        /\ ret.seen = {<<ret.before, ret.diff.sequenceNumber>>}
        /\ ret.before = lastSavedDeployment
        /\ ret.diff.sequenceNumber = sequenceNumber
        /\ ret.diff.deploymentDelta = computeEdits(StringOf(ret.before), StringOf(ret.arg))

\* After Saved("a") and Saved("\n"), a Diff("a\n") with no Saved during it has
\* returned version 3 and the delta from "\n".
C17_Witness ==
    /\ ret.op = "Diff"
    /\ ret.err = NoError
    /\ ret.seen = {<<Raw(<<10>>), 3>>}
    /\ ret.before = Raw(<<10>>)
    /\ ret.arg = Raw(<<97, 10>>)
    /\ ret.diff.sequenceNumber = 3

\* C18: within one Diff call two units run, the hash goroutine and the caller
\* computing the delta, and they do not race: neither writes before, after or
\* a field of the tracker; checkpointHash is written by the goroutine's
\* computation only, the delta is a function of before and after, and the
\* caller takes checkpointHash into a result only after the goroutine has
\* ended and the wait counter is 0.
C18_NoRaceWithinDiff ==
    [][/\ (pc # "idle" /\ pc' # "idle") => UNCHANGED <<tracker, before, after>>
       /\ ((hpc = "hash" /\ hpc' = "done") \/ (hpc = "done" /\ hpc' = "ended")) =>
             UNCHANGED <<pc, delta, ret>>
       /\ (pc = "edits" /\ pc' = "wait") =>
             /\ UNCHANGED <<checkpointHash, checkpointHashReady, hpc>>
             /\ delta' = computeEdits(StringOf(before), StringOf(after))
       /\ (pc # "idle" /\ pc' # "idle" /\ checkpointHash' # checkpointHash) =>
             (hpc = "hash" /\ hpc' = "done" /\ pc' = pc)
       /\ (pc' # "idle") => hpc' \in {"hash", "done", "ended"}
       /\ (pc # "idle" /\ ret'.op = "Diff" /\ ret'.err = NoError) =>
             (pc = "wait" /\ hpc = "ended" /\ checkpointHashReady = 0)
      ]_vars

\* Both units have done their work at the same time: the delta is computed and
\* the caller is at the wait, the goroutine has written the hash and has not
\* yet called Done.
C18_Witness ==
    /\ pc = "wait"
    /\ hpc = "done"
    /\ checkpointHashReady = 1
    /\ checkpointHash = computeHash(after)
    /\ ~delta.isNil
    /\ before = lastSavedDeployment

\* C20: every Diff call returns. The wait counter is 1 from the moment the
\* hash goroutine is started until its Done, and 0 before and after, so when
\* the goroutine and the delta computation are scheduled and end, the wait
\* ends too: a call in flight always reaches its return, with the result or
\* with the encoding error (a call refused by the precondition returns at
\* once).
C20_DiffReturns ==
    /\ [](/\ checkpointHashReady = IF hpc \in {"hash", "done"} THEN 1 ELSE 0
          /\ (pc = "idle") = (hpc = "none"))
    /\ (pc # "idle") ~> (pc = "idle" /\ ret.op = "Diff")

\* The caller is at the wait, the delta computed, while the goroutine has not
\* yet computed the hash and the counter is 1.
C20_Witness ==
    /\ pc = "wait"
    /\ hpc = "hash"
    /\ checkpointHashReady = 1
    /\ checkpointHash = <<>>
    /\ ~ENABLED DiffReturn

\* C21: a call of synchronouslyDo never both invokes fn and reports "timed out
\* waiting for lock": in no interleaving of its goroutine with the timeout has
\* a call that reported the timeout started fn, before the report or after.
C21_TimedOutNotCalled ==
    \A c \in Callers : ~(fatal[c] /\ fnCalls[c] > 0)

\* C22: synchronouslyDo serializes fn across the callers of one lockfile: fn is
\* running only in a goroutine that holds the file lock, so at most one fn is
\* running at any time; a call that returned without failure has its fn run to
\* completion; and a goroutine that acquired the lock has its Unlock deferred
\* and releases the lock, also when the timeout expired before it acquired it.
C22_SerializedUnderLock ==
    /\ [](\A c \in Callers :
            /\ gpc[c] = "infn" => mutex = c
            /\ (mpc[c] = "returned" /\ ~fatal[c]) =>
                   /\ fnCalls[c] = 1
                   /\ lockWait[c]
                   /\ gpc[c] \in {"defers", "done"}
            /\ mutex = c => unlockDeferred[c] /\ gpc[c] # "done")
    /\ [](Cardinality({c \in Callers : gpc[c] = "infn"}) <= 1)
    /\ \A c \in Callers : (mutex = c) ~> (mutex # c)

\* t1 ran fn under the lock and returned without failure; t2 acquired the lock
\* only after its timeout had expired, did not call fn, and released the lock.
C22_Witness ==
    /\ mpc["t1"] = "returned" /\ ~fatal["t1"]
    /\ fnCalls["t1"] = 1 /\ gpc["t1"] = "done"
    /\ mpc["t2"] = "returned" /\ fatal["t2"]
    /\ fnCalls["t2"] = 0 /\ unlockDeferred["t2"] /\ gpc["t2"] = "done"
    /\ mutex = "free"

\* C23: testLogWriter logs every written byte exactly once under any
\* interleaving of Write and Flush calls: the bytes logged so far, newlines
\* apart, are never more than the bytes written, and directly after a Flush
\* they are exactly the bytes written, so that a Flush after a Flush and a
\* Write after a Flush do not log flushed text again.
C23_EveryByteOnce ==
    /\ Len(Join(logs)) <= Len(Join(Pieces(written, <<>>, TRUE)))
    /\ (wret.op = "Flush") => (Join(logs) = Join(Pieces(written, <<>>, TRUE)))

====
